---- MODULE Spec2Model ----
(***************************************************************************)
(* Model of src/ReadMariaMJ.py: a FastAPI service with three endpoints     *)
(* (list, debug-list, create) over the single table MUSIC_DISCOGRAPHY.     *)
(*                                                                         *)
(* The table is the variable store, a sequence of rows in the store's      *)
(* natural order.  Every request runs in one of the slots of Reqs: it      *)
(* opens a session (get_db), runs its handler in one or two store round    *)
(* trips, and closes the session (get_db's finally).  Slots interleave     *)
(* freely, which models concurrent requests.                               *)
(***************************************************************************)
EXTENDS Integers, Sequences, FiniteSets, TLC

\* ------------------------------------------------------------------ bounds
MaxSkip == 1
MaxLimit == 2
MaxLegacy == 1

\* ------------------------------------------------------------ data model
None == "None"

\* The nine columns of MusicDiscography, which are also the schema's fields.
Columns ==
    {"TYPE", "SDATE", "SALENUMBER", "ORDER", "MTITLE", "MAINCOLOR",
     "LABEL", "GROUP", "CENTER"}

Types == {"LP1", "LP2"}

Reqs == {"r1", "r2"}

\* JSON bodies a client posts: every field, the key alone, or no key.
FullBody(t) ==
    [TYPE |-> t, SDATE |-> "2020-01-01", SALENUMBER |-> "S1", ORDER |-> "A",
     MTITLE |-> "X", MAINCOLOR |-> "red", LABEL |-> "L", GROUP |-> "G",
     CENTER |-> "C"]

SparseBody(t) == [TYPE |-> t]

NoTypeBody ==
    [ORDER |-> "A", MTITLE |-> "Y", LABEL |-> "L", GROUP |-> "G", CENTER |-> "C"]

Bodies == {FullBody(t) : t \in Types} \cup {SparseBody(t) : t \in Types}
              \cup {NoTypeBody}

\* class MusicDiscographySchema: every field is Optional with default None.
MusicDiscographySchema(json) ==
    [f \in Columns |-> IF f \in DOMAIN json THEN json[f] ELSE None]

\* MusicDiscography(**record.dict()): one attribute per column.  load tells
\* how the ORM hands the row back when it is fetched: as an object ("ok"),
\* as None ("none"), or as an object whose attribute access raises ("raise").
MusicDiscography(kwargs) ==
    [cols |-> [c \in Columns |-> kwargs[c]], load |-> "ok"]

\* Rows the table may hold before the service starts.
LegacyRows ==
    {[cols |-> MusicDiscographySchema(FullBody(t)), load |-> l] :
        t \in Types, l \in {"ok", "none", "raise"}}

\* ---------------------------------------------------------------- errors
NoExc == "none"
ErrConn == "(2003) Can't connect to MySQL server"
ErrDup == "(1062) Duplicate entry for key PRIMARY"
ErrNull == "(1048) Column TYPE cannot be null"
ErrConv == "error reading attribute"

StoreErrors == {ErrConn, ErrDup, ErrNull}


\* ------------------------------------------------------------- responses
\* What a handler returns with status 200.
Ok(body) == [status |-> 200, kind |-> "json", detail |-> None, body |-> body]

\* raise HTTPException(status_code=500, detail=str(e))
HTTPException(e) ==
    [status |-> 500, kind |-> "http_exception", detail |-> e, body |-> <<>>]

\* An exception no handler catches: the framework answers 500 with the
\* plain text "Internal Server Error" and no detail.
Unhandled(e) ==
    [status |-> 500, kind |-> "server_error", detail |-> None, body |-> <<>>]

NoResp == [status |-> 0, kind |-> "none", detail |-> None, body |-> <<>>]

\* ------------------------------------------------------- pure operations
Min(a, b) == IF a <= b THEN a ELSE b

\* Mutant of Query: the offset is forgotten.
Query_NoOffset(st, skip, limit) == SubSeq(st, 1, Min(limit, Len(st)))

\* db.query(MusicDiscography).offset(skip).limit(limit).all()
Query(st, skip, limit) == SubSeq(st, skip + 1, Min(skip + limit, Len(st)))

\* Mutant of record_to_dict: one column is left out of the mapping.
record_to_dict_DropColumn(record) ==
    IF record.load = "none" THEN [tag |-> "None"]
    ELSE IF record.load = "raise" THEN [tag |-> "raise"]
    ELSE [tag |-> "dict",
          dict |-> [c \in Columns \ {"MAINCOLOR"} |-> record.cols[c]]]

\* record_to_dict: None for a None record, else the column mapping; the
\* attribute access of an unreadable row raises.
record_to_dict(record) ==
    IF record.load = "none" THEN [tag |-> "None"]
    ELSE IF record.load = "raise" THEN [tag |-> "raise"]
    ELSE [tag |-> "dict", dict |-> [c \in Columns |-> record.cols[c]]]

\* `if record_dict:` a mapping is truthy when it is not empty.
Truthy(d) == d.tag = "dict" /\ DOMAIN d.dict # {}

\* Mutant of valid_records: the first record that cannot be used ends the
\* loop (break instead of continue).
RECURSIVE valid_records_Break(_)
valid_records_Break(records) ==
    IF records = <<>> THEN <<>>
    ELSE LET record_dict == record_to_dict(Head(records))
         IN  IF record_dict.tag = "raise" THEN <<>>
             ELSE IF Truthy(record_dict)
                  THEN <<record_dict.dict>> \o valid_records_Break(Tail(records))
                  ELSE <<>>

\* The loop of read_music_discography: a None record and a record whose
\* conversion raises are skipped, the others appended in order.
RECURSIVE valid_records(_)
valid_records(records) ==
    IF records = <<>> THEN <<>>
    ELSE LET record_dict == record_to_dict(Head(records))
         IN  IF record_dict.tag = "raise" THEN valid_records(Tail(records))
             ELSE IF Truthy(record_dict)
                  THEN <<record_dict.dict>> \o valid_records(Tail(records))
                  ELSE valid_records(Tail(records))

\* dir(record): the attribute names of the in-memory object.
dir(record) ==
    IF record.load = "none" THEN {"__class__", "__doc__"}
    ELSE Columns \cup {"__table__", "__tablename__", "metadata"}

\* One entry of debug_info, for the record at zero-based index i.
record_info(i, record) ==
    [index |-> i,
     type |-> IF record.load = "none" THEN "NoneType" ELSE "MusicDiscography",
     attributes |-> dir(record),
     is_none |-> record.load = "none",
     data |-> IF record.load # "none" THEN record_to_dict(record).dict ELSE None]

\* The loop of debug_music_discography: the first record whose conversion
\* raises ends the loop with that exception.
RECURSIVE debug_info(_, _)
debug_info(i, records) ==
    IF records = <<>> THEN [exc |-> NoExc, out |-> <<>>]
    ELSE IF record_to_dict(Head(records)).tag = "raise"
         THEN [exc |-> ErrConv, out |-> <<>>]
         ELSE LET rest == debug_info(i + 1, Tail(records))
              IN  IF rest.exc # NoExc THEN rest
                  ELSE [exc |-> NoExc,
                        out |-> <<record_info(i, Head(records))>> \o rest.out]

\* response_model=MusicDiscographySchema applied to a returned mapping.
response_model(d) == MusicDiscographySchema(d)

response_list(ds) == [k \in 1..Len(ds) |-> response_model(ds[k])]

\* The whole of read_music_discography, given whether the query fails.
read_music_discography(st, skip, limit, fail) ==
    IF fail THEN HTTPException(ErrConn)
    ELSE Ok(response_list(valid_records(Query(st, skip, limit))))

\* Mutant of debug_music_discography: the query forgets the offset.
debug_music_discography_NoSkip(st, skip, limit, fail) ==
    IF fail THEN HTTPException(ErrConn)
    ELSE LET r == debug_info(0, Query(st, 0, limit))
         IN  IF r.exc # NoExc THEN HTTPException(r.exc) ELSE Ok(r.out)

\* The whole of debug_music_discography, given whether the query fails.
debug_music_discography(st, skip, limit, fail) ==
    IF fail THEN HTTPException(ErrConn)
    ELSE LET r == debug_info(0, Query(st, skip, limit))
         IN  IF r.exc # NoExc THEN HTTPException(r.exc) ELSE Ok(r.out)

TypeExists(st, t) == \E k \in 1..Len(st) : st[k].cols["TYPE"] = t

\* Mutant of add: the new row is written over the row at its place.
add_Overwrite(st, db_record, p) ==
    IF p <= Len(st) THEN [st EXCEPT ![p] = db_record]
    ELSE Append(st, db_record)

\* db.add(db_record): the new row takes some place in the natural order.
add(st, db_record, p) ==
    SubSeq(st, 1, p - 1) \o <<db_record>> \o SubSeq(st, p, Len(st))

\* Mutant of commit: TYPE is not a key, a second row with it is inserted.
commit_NoKey(st, db_record, p, fail) ==
    IF fail THEN [store |-> st, exc |-> ErrConn]
    ELSE IF db_record.cols["TYPE"] = None THEN [store |-> st, exc |-> ErrNull]
    ELSE [store |-> add(st, db_record, p), exc |-> NoExc]

\* Mutant of commit: db.merge instead of db.add, the row with the same
\* TYPE is replaced.
commit_Merge(st, db_record, p, fail) ==
    IF fail THEN [store |-> st, exc |-> ErrConn]
    ELSE IF db_record.cols["TYPE"] = None THEN [store |-> st, exc |-> ErrNull]
    ELSE IF TypeExists(st, db_record.cols["TYPE"])
         THEN [store |-> [k \in 1..Len(st) |->
                            IF st[k].cols["TYPE"] = db_record.cols["TYPE"]
                            THEN db_record ELSE st[k]],
               exc |-> NoExc]
         ELSE [store |-> add(st, db_record, p), exc |-> NoExc]

\* db.add + db.commit: the INSERT and its COMMIT.  TYPE is the primary
\* key: a NULL key and a key already present are rejected, and a rejected
\* transaction leaves the table as it was.
commit(st, db_record, p, fail) ==
    IF fail THEN [store |-> st, exc |-> ErrConn]
    ELSE IF db_record.cols["TYPE"] = None THEN [store |-> st, exc |-> ErrNull]
    ELSE IF TypeExists(st, db_record.cols["TYPE"])
         THEN [store |-> st, exc |-> ErrDup]
         ELSE [store |-> add(st, db_record, p), exc |-> NoExc]

\* db.refresh(db_record): the row is read again by its primary key.
refresh(st, db_record) ==
    LET k == CHOOSE k \in 1..Len(st) :
                 st[k].cols["TYPE"] = db_record.cols["TYPE"]
    IN  st[k]

\* `return db_record` through response_model, which reads the attributes.
create_response(db_record) == Ok(response_model(db_record.cols))

\* get_db: SessionLocal() opens a session, the finally clause closes it.
SessionLocal(n) == n + 1

\* Mutant of close: the session is closed on the success path only.
close_OnSuccessOnly(n, resp) == IF resp.status = 200 THEN n - 1 ELSE n

close(n, resp) == n - 1

\* ----------------------------------------------------------------- state
VARIABLES
    store,      \* the rows of MUSIC_DISCOGRAPHY, in the store's natural order
    req,        \* per slot: the request it is serving and how far it got
    open,       \* sessions opened by SessionLocal() and not yet closed
    created     \* history: the JSON bodies whose create returned 200

vars == <<store, req, open, created>>

\* A slot with no request.  fresh and exit are history fields: whether a
\* create's TYPE was absent from the table when the request arrived, and
\* how the slot's previous request left its handler.
Idle ==
    [pc |-> "idle", op |-> "none", skip |-> 0, limit |-> 0, json |-> <<>>,
     fresh |-> FALSE, exc |-> NoExc, resp |-> NoResp, exit |-> "none"]

RECURSIVE SeqsOver(_, _)
SeqsOver(S, n) ==
    IF n = 0 THEN {<<>>}
    ELSE LET shorter == SeqsOver(S, n - 1)
         IN  shorter \cup {Append(q, x) : q \in shorter, x \in S}

UniqueTypes(st) ==
    \A j, k \in 1..Len(st) :
        st[j].cols["TYPE"] = st[k].cols["TYPE"] => j = k

\* The table exists before the service starts and is keyed by TYPE.
Init ==
    /\ store \in {st \in SeqsOver(LegacyRows, MaxLegacy) : UniqueTypes(st)}
    /\ req = [i \in Reqs |-> Idle]
    /\ open = 0
    /\ created = {}

\* A request arrives and get_db opens its session (lines 76-79).
StartList(i) ==
    /\ req[i].pc = "idle"
    /\ \E skip \in 0..MaxSkip, limit \in 1..MaxLimit :
         req' = [req EXCEPT ![i] = [Idle EXCEPT !.pc = "handler",
                     !.op = "list", !.skip = skip, !.limit = limit]]
    /\ open' = SessionLocal(open)
    /\ UNCHANGED <<store, created>>

StartDebug(i) ==
    /\ req[i].pc = "idle"
    /\ \E skip \in 0..MaxSkip, limit \in 1..MaxLimit :
         req' = [req EXCEPT ![i] = [Idle EXCEPT !.pc = "handler",
                     !.op = "debug", !.skip = skip, !.limit = limit]]
    /\ open' = SessionLocal(open)
    /\ UNCHANGED <<store, created>>

StartCreate(i) ==
    /\ req[i].pc = "idle"
    /\ \E json \in Bodies :
         req' = [req EXCEPT ![i] = [Idle EXCEPT !.pc = "handler",
                     !.op = "create", !.json = json,
                     !.fresh = ~TypeExists(store,
                                   MusicDiscographySchema(json)["TYPE"])]]
    /\ open' = SessionLocal(open)
    /\ UNCHANGED <<store, created>>

\* GET /music_discography/ (lines 89-112).
List(i) ==
    /\ req[i].pc = "handler" /\ req[i].op = "list"
    /\ \E fail \in BOOLEAN :
         req' = [req EXCEPT ![i].pc = "teardown",
                   ![i].exc = IF fail THEN ErrConn ELSE NoExc,
                   ![i].resp = read_music_discography(
                                   store, req[i].skip, req[i].limit, fail)]
    /\ UNCHANGED <<store, open, created>>

\* GET /debug_music_discography/ (lines 115-132).
Debug(i) ==
    /\ req[i].pc = "handler" /\ req[i].op = "debug"
    /\ \E fail \in BOOLEAN :
         LET resp == debug_music_discography(
                         store, req[i].skip, req[i].limit, fail)
         IN  req' = [req EXCEPT ![i].pc = "teardown",
                       ![i].exc = IF resp.status = 200 THEN NoExc
                                  ELSE resp.detail,
                       ![i].resp = resp]
    /\ UNCHANGED <<store, open, created>>

\* POST /music_discography/, lines 136-138: build the row, add, commit.
\* Nothing in the handler catches the exception of a failed commit.
CreateCommit(i) ==
    /\ req[i].pc = "handler" /\ req[i].op = "create"
    /\ \E fail \in BOOLEAN, p \in 1..(Len(store) + 1) :
         LET record == MusicDiscographySchema(req[i].json)
             db_record == MusicDiscography(record)
             r == commit(store, db_record, p, fail)
         IN  /\ store' = r.store
             /\ req' = [req EXCEPT
                   ![i].pc = IF r.exc = NoExc THEN "refresh" ELSE "teardown",
                   ![i].exc = r.exc,
                   ![i].resp = IF r.exc = NoExc THEN NoResp
                               ELSE Unhandled(r.exc)]
    /\ UNCHANGED <<open, created>>

\* POST /music_discography/, lines 139-140: refresh and return.
CreateRefresh(i) ==
    /\ req[i].pc = "refresh"
    /\ \E fail \in BOOLEAN :
         LET record == MusicDiscographySchema(req[i].json)
             db_record == refresh(store, MusicDiscography(record))
         IN  IF fail
             THEN /\ req' = [req EXCEPT ![i].pc = "teardown",
                               ![i].exc = ErrConn,
                               ![i].resp = Unhandled(ErrConn)]
                  /\ UNCHANGED created
             ELSE /\ req' = [req EXCEPT ![i].pc = "teardown",
                               ![i].resp = create_response(db_record)]
                  /\ created' = created \cup {req[i].json}
    /\ UNCHANGED <<store, open>>

\* The response is out and get_db's finally closes the session (80-81).
Release(i) ==
    /\ req[i].pc = "teardown"
    /\ open' = close(open, req[i].resp)
    /\ req' = [req EXCEPT ![i] = [Idle EXCEPT !.exit = req[i].resp.kind]]
    /\ UNCHANGED <<store, created>>

Next ==
    \E i \in Reqs :
        \/ StartList(i)
        \/ StartDebug(i)
        \/ StartCreate(i)
        \/ List(i)
        \/ Debug(i)
        \/ CreateCommit(i)
        \/ CreateRefresh(i)
        \/ Release(i)

Spec == Init /\ [][Next]_vars

InFlight == {i \in Reqs : req[i].pc # "idle"}

\* ---------------------------------------------------- claim vocabulary
\* The fields the data model of the specification marks as not nullable.
NotNullable == {"TYPE", "ORDER", "MTITLE", "LABEL", "GROUP", "CENTER"}

\* The values a client submitted: an omitted field is null.
Submitted(json) == [f \in Columns |-> IF f \in DOMAIN json THEN json[f] ELSE None]

\* The column mapping of a stored row.
RowDict(row) == [c \in Columns |-> row.cols[c]]

Max(a, b) == IF a >= b THEN a ELSE b

\* The rows of st at positions skip+1 .. skip+limit.
WindowRows(st, skip, limit) ==
    [k \in 1..Max(0, Min(Len(st), skip + limit) - skip) |-> st[skip + k]]

IsOkRow(row) == row.load = "ok"

RowDicts(rows) == [k \in 1..Len(rows) |-> RowDict(rows[k])]

RECURSIVE IsSubSeq(_, _)
IsSubSeq(a, b) ==
    IF a = <<>> THEN TRUE
    ELSE IF b = <<>> THEN FALSE
    ELSE IF Head(a) = Head(b) THEN IsSubSeq(Tail(a), Tail(b))
    ELSE IsSubSeq(a, Tail(b))

Finished(i, op) == req[i].pc = "teardown" /\ req[i].op = op

IsPresent(e) == ~e.is_none

PresentData(entries) ==
    LET present == SelectSeq(entries, IsPresent)
    IN  [k \in 1..Len(present) |-> present[k].data]

\* ------------------------------------------------------------------ C1
\* The step in which slot i runs its list handler.
ListStep(i) ==
    /\ req[i].pc = "handler" /\ req[i].op = "list"
    /\ req'[i].pc = "teardown"

\* C1: a list request that succeeds returns at most `limit` records, none
\* of them among the first `skip` rows of the table it queried; the result
\* is a sub-sequence of the rows at positions skip+1 .. skip+limit, so it
\* is empty on an empty table; and a list request fails only when the
\* store failed.
C1_ListWindow ==
    [][\A i \in Reqs :
          ListStep(i) =>
            LET r == req'[i]
                body == r.resp.body
            IN  /\ r.exc = NoExc => r.resp.status = 200
                /\ r.resp.status = 200 =>
                     /\ Len(body) <= r.limit
                     /\ IsSubSeq(body,
                                 RowDicts(WindowRows(store, r.skip, r.limit)))
                     /\ \A k \in 1..Min(r.skip, Len(store)) :
                            \A j \in 1..Len(body) : body[j] # RowDict(store[k])
                     /\ store = <<>> => body = <<>>]_vars

\* A list with skip = 1 ran on a table of two rows and returned the second.
C1_Witness ==
    \E i \in Reqs :
        /\ Finished(i, "list") /\ req[i].resp.status = 200
        /\ req[i].skip = 1 /\ Len(store) = 2
        /\ req[i].resp.body = <<RowDict(store[2])>>

\* ------------------------------------------------------------------ C2
\* C2: the response of a create that succeeds equals the submitted
\* record, and every later list with skip = 0 and limit at least the number
\* of stored rows that succeeds contains, for each record created so far,
\* an entry whose nine fields equal the submitted values.
C2_CreateThenList ==
    [][\A i \in Reqs :
          /\ (req[i].pc = "refresh" /\ req'[i].resp.status = 200) =>
                 req'[i].resp.body = Submitted(req[i].json)
          /\ (/\ ListStep(i) /\ req'[i].resp.status = 200
              /\ req[i].skip = 0 /\ req[i].limit >= Len(store)) =>
                 \A json \in created :
                     \E k \in 1..Len(req'[i].resp.body) :
                         req'[i].resp.body[k] = Submitted(json)]_vars

\* A full list returned both of the records two creates had stored.
C2_Witness ==
    \E i \in Reqs :
        /\ Finished(i, "list") /\ req[i].resp.status = 200
        /\ req[i].skip = 0 /\ req[i].limit >= Len(store)
        /\ Cardinality(created) = 2
        /\ \A json \in created :
               \E k \in 1..Len(req[i].resp.body) :
                   req[i].resp.body[k] = Submitted(json)

\* ------------------------------------------------------------------ C3
\* C3: a create whose TYPE is the TYPE of a row in the table when it
\* commits ends with status 500 and leaves the table as it was.
C3_DuplicateCreateFails ==
    [][\A i \in Reqs :
          (/\ req[i].pc = "handler" /\ req[i].op = "create"
           /\ TypeExists(store, Submitted(req[i].json)["TYPE"])
           /\ req'[i].pc # "handler")
          => (req'[i].resp.status = 500 /\ store' = store)]_vars

\* A create was rejected for its duplicate key.
C3_Witness ==
    \E i \in Reqs :
        /\ Finished(i, "create") /\ req[i].exc = ErrDup
        /\ req[i].resp.status = 500
        /\ TypeExists(store, Submitted(req[i].json)["TYPE"])

\* ------------------------------------------------------------------ C4
\* C4: on every endpoint a request during which the store raised a
\* failure answers 500 with a non-empty detail equal to the error message.
C4_StoreFailureDetail ==
    \A i \in Reqs :
        (req[i].pc = "teardown" /\ req[i].exc \in StoreErrors) =>
            /\ req[i].resp.status = 500
            /\ req[i].resp.detail = req[i].exc
            /\ req[i].resp.detail # ""

\* ------------------------------------------------------------------ C5
\* C5: no two rows of the table have the same TYPE; and when two creates
\* that carry the same TYPE, absent from the table when each arrived, have
\* both run without a connectivity failure, exactly one returned 200, the
\* other was rejected for the duplicate key, and one row has that TYPE.
C5_UniqueKey ==
    /\ \A j, k \in 1..Len(store) :
           store[j].cols["TYPE"] = store[k].cols["TYPE"] => j = k
    /\ \A i, j \in Reqs :
           (/\ i # j
            /\ Finished(i, "create") /\ Finished(j, "create")
            /\ Submitted(req[i].json)["TYPE"] = Submitted(req[j].json)["TYPE"]
            /\ Submitted(req[i].json)["TYPE"] # None
            /\ req[i].fresh /\ req[j].fresh
            /\ req[i].exc # ErrConn /\ req[j].exc # ErrConn)
           => /\ (req[i].resp.status = 200) # (req[j].resp.status = 200)
              /\ req[i].resp.status # 200 => req[i].exc = ErrDup
              /\ req[j].resp.status # 200 => req[j].exc = ErrDup
              /\ Cardinality({k \in 1..Len(store) :
                     store[k].cols["TYPE"] = Submitted(req[i].json)["TYPE"]}) = 1

\* Two concurrent creates of one new TYPE have both finished.
C5_Witness ==
    \E i, j \in Reqs :
        /\ i # j
        /\ Finished(i, "create") /\ Finished(j, "create")
        /\ Submitted(req[i].json)["TYPE"] = Submitted(req[j].json)["TYPE"]
        /\ req[i].fresh /\ req[j].fresh
        /\ req[i].resp.status = 200 /\ req[j].exc = ErrDup

\* ------------------------------------------------------------------ C6
\* C6: every request in flight holds exactly one open session and a
\* finished request holds none, whatever path it left its handler by: the
\* open sessions are as many as the requests in flight.
C6_SessionScoped ==
    /\ open = Cardinality(InFlight)
    /\ InFlight = {} => open = 0

\* A create ended with an exception nothing caught, and no session is open.
C6_Witness ==
    /\ InFlight = {}
    /\ open = 0
    /\ \E i \in Reqs : req[i].exit = "server_error"

\* ------------------------------------------------------------------ C7
\* The step in which slot i runs its debug-list handler, the query done.
DebugStep(i) ==
    /\ req[i].pc = "handler" /\ req[i].op = "debug"
    /\ req'[i].pc = "teardown"
    /\ req'[i].exc # ErrConn

\* C7 as stated: the output of a debug-list is as long as the output of
\* list for the same skip and limit on the same table, and the data of its
\* entry k is list entry k, absent and unreadable rows included.
C7_DebugEqualsList ==
    [][\A i \in Reqs :
          DebugStep(i) =>
            LET l == read_music_discography(
                         store, req[i].skip, req[i].limit, FALSE).body
                d == req'[i].resp.body
            IN  /\ Len(d) = Len(l)
                /\ \A k \in 1..Len(d) : ~d[k].is_none /\ d[k].data = l[k]]_vars

\* C7 as amended: for the same skip and limit on the same table, when
\* debug-list succeeds the list output is the data of the debug entries
\* that are not flagged is_none, in order; when no fetched row is absent or
\* unreadable debug-list succeeds, the two outputs are equally long and the
\* data of debug entry k is list entry k.
C7_DebugMatchesPresentRows ==
    [][\A i \in Reqs :
          DebugStep(i) =>
            LET l == read_music_discography(
                         store, req[i].skip, req[i].limit, FALSE)
                d == req'[i].resp
                w == WindowRows(store, req[i].skip, req[i].limit)
            IN  /\ l.status = 200
                /\ d.status = 200 => l.body = PresentData(d.body)
                /\ (\A k \in 1..Len(w) : IsOkRow(w[k])) =>
                       /\ d.status = 200
                       /\ Len(d.body) = Len(l.body)
                       /\ \A k \in 1..Len(d.body) :
                              /\ ~d.body[k].is_none
                              /\ d.body[k].data = l.body[k]]_vars

\* A debug-list returned an entry for an absent row next to a present one.
C7_Witness ==
    \E i \in Reqs :
        /\ Finished(i, "debug") /\ req[i].resp.status = 200
        /\ \E j, k \in 1..Len(req[i].resp.body) :
               req[i].resp.body[j].is_none /\ ~req[i].resp.body[k].is_none

\* ------------------------------------------------------------------ C8
\* C8: no step removes or changes a stored row, a step adds at most one
\* row, and only the commit of a create changes the table at all.
C8_StoreOnlyGrows ==
    [][/\ \A k \in 1..Len(store) :
              \E k2 \in 1..Len(store') : store'[k2] = store[k]
       /\ Len(store') <= Len(store) + 1
       /\ store' # store =>
              \E i \in Reqs : /\ req[i].op = "create" /\ req[i].pc = "handler"
                              /\ req'[i].pc = "refresh"]_vars

\* A create has committed its row into a table that held a row already.
C8_Witness ==
    \E i \in Reqs :
        /\ req[i].pc = "refresh"
        /\ Len(store) = 2
        /\ \E k \in 1..Len(store) : store[k].cols["TYPE"] # req[i].json["TYPE"]

\* ------------------------------------------------------------------ C9
\* C9: a create whose body omits a field the data model marks as not
\* nullable does not return 200, and no stored row has such a field null.
C9_RequiredFields ==
    /\ \A i \in Reqs :
           (Finished(i, "create") /\ NotNullable \ DOMAIN req[i].json # {})
               => req[i].resp.status # 200
    /\ \A k \in 1..Len(store) :
           \A f \in NotNullable : store[k].cols[f] # None

\* ----------------------------------------------------------------- C10
\* C10: a list during which the store did not fail succeeds, and its
\* result is the column mappings of the rows of the fetched batch that are
\* present and convert, in their order: the other rows alone are skipped.
C10_BadRowsSkipped ==
    [][\A i \in Reqs :
          (ListStep(i) /\ req'[i].exc = NoExc) =>
              /\ req'[i].resp.status = 200
              /\ req'[i].resp.body =
                     RowDicts(SelectSeq(
                         WindowRows(store, req[i].skip, req[i].limit),
                         IsOkRow))]_vars

\* A list fetched a bad row followed by a good row and returned the good one.
C10_Witness ==
    \E i \in Reqs :
        /\ Finished(i, "list") /\ req[i].resp.status = 200
        /\ LET w == WindowRows(store, req[i].skip, req[i].limit)
           IN  /\ Len(w) = 2
               /\ ~IsOkRow(w[1]) /\ IsOkRow(w[2])
               /\ req[i].resp.body = <<RowDict(w[2])>>

====
